---- MODULE Spec2Model ----
(***************************************************************************)
(* conversation-parser: a transcript is read line by line and folded into  *)
(* a table of speaker turns.  Two pipelines are modelled:                  *)
(*   - timestamped mode (main.rs): parse_message / parse_timestamp /       *)
(*     parse_conversations / to_markdown_table;                            *)
(*   - tagged mode (json_no_timestamps.rs): parse_quoted / parse_entries / *)
(*     merge_entries / escape_md / to_markdown_table / json_to_md.         *)
(* A String is a sequence of characters; a character is a one-letter       *)
(* string, except the two characters whose case mapping expands, which are *)
(* written by code point ("U+0130", "U+00DF", "U+0307").  Option<T> is a   *)
(* sequence of length 0 (None) or 1 (Some).                                *)
(***************************************************************************)
EXTENDS Integers, Sequences, FiniteSets, TLC

VARIABLES
    pc,               \* position of the run in main / json_to_md
    flag,             \* args[2] of main
    input,            \* the input file, as its sequence of lines
    i,                \* number of lines the running loop has consumed
    current,          \* parse_conversations: Option<Conversation>
    conversations,    \* parse_conversations: Vec<Conversation>
    current_speaker,  \* parse_entries: Option<String>
    entries,          \* parse_entries: Vec<Entry>
    k,                \* merge_entries: number of entries consumed
    merged,           \* merge_entries: Vec<Entry>
    stdout,           \* what was printed to standard output, one String per print
    stderr,           \* diagnostics printed to standard error
    qs,               \* parse_quoted: its argument s
    qp,               \* parse_quoted: where the iterator chars stands in s
    qresult,          \* parse_quoted: result
    qret              \* parse_quoted: what it returned

vars == <<pc, flag, input, i, current, conversations, current_speaker,
          entries, k, merged, stdout, stderr, qs, qp, qresult, qret>>

\* The locals of a call of parse_quoted that is followed step by step
qvars == <<qs, qp, qresult, qret>>

(***************************************************************************)
(* Bounds of the model.                                                    *)
(***************************************************************************)
MaxTsLines == 3
MaxTagLines == 4
MaxQuotedLen == 5
MaxFieldLen == 2

(***************************************************************************)
(* Characters and the str methods the code uses.                           *)
(***************************************************************************)
None == <<>>
Some(x) == <<x>>

UpperAZ == <<"A","B","C","D","E","F","G","H","I","J","K","L","M",
             "N","O","P","Q","R","S","T","U","V","W","X","Y","Z">>
LowerAZ == <<"a","b","c","d","e","f","g","h","i","j","k","l","m",
             "n","o","p","q","r","s","t","u","v","w","x","y","z">>
Digits == <<"0","1","2","3","4","5","6","7","8","9">>

Range(s) == {s[n] : n \in 1..Len(s)}
IndexOf(s, c) == CHOOSE n \in 1..Len(s) : s[n] = c

\* char::is_whitespace, on the characters of the model
IsWhitespace(c) == c \in {" ", "\t", "\n", "\r"}

\* char::to_lowercase: an iterator, since one character may lower to several
CharToLowercase(c) ==
    IF c \in Range(UpperAZ) THEN <<LowerAZ[IndexOf(UpperAZ, c)]>>
    ELSE IF c = "U+0130" THEN <<"i", "U+0307">>
    ELSE <<c>>

\* char::to_uppercase
CharToUppercase(c) ==
    IF c \in Range(LowerAZ) THEN <<UpperAZ[IndexOf(LowerAZ, c)]>>
    ELSE IF c = "U+00DF" THEN <<"S", "S">>
    ELSE <<c>>

RECURSIVE TrimStart(_)
TrimStart(s) ==
    IF s # <<>> /\ IsWhitespace(Head(s)) THEN TrimStart(Tail(s)) ELSE s

RECURSIVE TrimEnd(_)
TrimEnd(s) ==
    IF s # <<>> /\ IsWhitespace(s[Len(s)])
    THEN TrimEnd(SubSeq(s, 1, Len(s) - 1))
    ELSE s

Trim(s) == TrimEnd(TrimStart(s))

StartsWith(s, p) == Len(p) <= Len(s) /\ SubSeq(s, 1, Len(p)) = p
EndsWith(s, p) == Len(p) <= Len(s) /\ SubSeq(s, Len(s) - Len(p) + 1, Len(s)) = p

\* str::strip_prefix: Some(rest) or None
StripPrefix(s, p) ==
    IF StartsWith(s, p) THEN Some(SubSeq(s, Len(p) + 1, Len(s))) ELSE None

\* s.chars().last()
LastChar(s) == IF s = <<>> THEN None ELSE Some(s[Len(s)])

RECURSIVE Join(_, _)
Join(ls, sep) ==
    IF ls = <<>> THEN <<>>
    ELSE IF Len(ls) = 1 THEN ls[1]
    ELSE ls[1] \o sep \o Join(Tail(ls), sep)

SeqsUpTo(S, n) == UNION {[1..m -> S] : m \in 0..n}

(***************************************************************************)
(* Timestamped mode: main.rs                                               *)
(***************************************************************************)
IsDigit(c) == c \in Range(Digits)
DigitVal(c) == IndexOf(Digits, c) - 1

\* The first capture group of MSG_REGEX, \d{4}-\d{2}-\d{2}T\d{2}:\d{2}:\d{2},
\* matched at position p of s
TimestampShapeAt(s, p) ==
    /\ p + 18 <= Len(s)
    /\ \A d \in {0, 1, 2, 3, 5, 6, 8, 9, 11, 12, 14, 15, 17, 18} : IsDigit(s[p + d])
    /\ s[p + 4] = "-" /\ s[p + 7] = "-"
    /\ s[p + 10] = "T"
    /\ s[p + 13] = ":" /\ s[p + 16] = ":"

\* Where the ": " between (.+?) and (.+) can stand when the match starts at p:
\* after " - " and at least one character of name, before at least one
\* character of message.  A line holds no line feed, so "." matches all of it.
MsgSeparators(s, p) ==
    IF /\ TimestampShapeAt(s, p)
       /\ p + 21 <= Len(s)
       /\ SubSeq(s, p + 19, p + 21) = <<" ", "-", " ">>
    THEN {j \in (p + 23)..(Len(s) - 2) : s[j] = ":" /\ s[j + 1] = " "}
    ELSE {}

SetMin(S) == CHOOSE x \in S : \A y \in S : x <= y

\* MSG_REGEX.captures: the leftmost match, its name the shortest possible
MSG_REGEX(s) ==
    LET starts == {p \in 1..Len(s) : MsgSeparators(s, p) # {}}
    IN  IF starts = {} THEN None
        ELSE LET p == SetMin(starts)
                 j == SetMin(MsgSeparators(s, p))
             IN  Some([timestamp |-> SubSeq(s, p, p + 18),
                       name      |-> SubSeq(s, p + 22, j - 1),
                       message   |-> SubSeq(s, j + 2, Len(s))])

parse_message(line) == MSG_REGEX(Trim(line))

IsLeapYear(y) == (y % 4 = 0 /\ y % 100 # 0) \/ y % 400 = 0
DaysInMonth(y, m) ==
    IF m = 2 THEN (IF IsLeapYear(y) THEN 29 ELSE 28)
    ELSE IF m \in {4, 6, 9, 11} THEN 30 ELSE 31

Num2(s, p) == 10 * DigitVal(s[p]) + DigitVal(s[p + 1])

\* NaiveDateTime::parse_from_str(s, "%Y-%m-%dT%H:%M:%S").map(and_utc), on a
\* string of the shape MSG_REGEX captured: Ok(date-time) or Err
parse_timestamp(s) ==
    LET dt == [year   |-> 100 * Num2(s, 1) + Num2(s, 3),
               month  |-> Num2(s, 6),
               day    |-> Num2(s, 9),
               hour   |-> Num2(s, 12),
               minute |-> Num2(s, 15),
               second |-> Num2(s, 18)]
    IN  IF /\ dt.month \in 1..12
           /\ dt.day \in 1..DaysInMonth(dt.year, dt.month)
           /\ dt.hour <= 23
           /\ dt.minute <= 59
           /\ dt.second <= 60
        THEN [ok |-> TRUE, t |-> dt]
        ELSE [ok |-> FALSE, e |-> "ParseError"]

Fmt2(n) == <<Digits[(n \div 10) + 1], Digits[(n % 10) + 1]>>

\* start_time.format("%Y-%m-%dT%H:%M:%S")
FormatTimestamp(dt) ==
    Fmt2(dt.year \div 100) \o Fmt2(dt.year % 100) \o <<"-">> \o Fmt2(dt.month)
    \o <<"-">> \o Fmt2(dt.day) \o <<"T">> \o Fmt2(dt.hour) \o <<":">>
    \o Fmt2(dt.minute) \o <<":">> \o Fmt2(dt.second)

to_lowercase_first(s) ==
    IF s = <<>> THEN <<>> ELSE CharToLowercase(Head(s)) \o Tail(s)

Conversation(ts, end, name, message) ==
    [start_time |-> ts, end_time |-> end, name |-> name, message |-> message]

\* Mutant: the first character is lowercased after a period too
MergeMessageAlwaysLowercases(prev_message, message) ==
    prev_message \o <<" ">> \o to_lowercase_first(message)

\* The "same author" arm of parse_conversations: the new prev.message
MergeMessage(prev_message, message) ==
    IF LastChar(Trim(prev_message)) = Some(".")
    THEN prev_message \o <<" ">> \o message
    ELSE prev_message \o <<" ">> \o to_lowercase_first(message)

\* Mutant: the same-author arm is never taken
BuildTurnNeverMerges(cur, convs, ts, name, message) ==
    IF cur # None
    THEN [current |-> Some(Conversation(ts, None, name, message)),
          conversations |-> Append(convs, [cur[1] EXCEPT !.end_time = Some(ts)])]
    ELSE [current |-> Some(Conversation(ts, None, name, message)),
          conversations |-> convs]

\* Mutant: the flush forgets prev.end_time = Some(ts)
BuildTurnOpenEnded(cur, convs, ts, name, message) ==
    IF cur # None /\ cur[1].name = name
    THEN [current |-> Some([cur[1] EXCEPT !.message = MergeMessage(@, message)]),
          conversations |-> convs]
    ELSE IF cur # None
    THEN [current |-> Some(Conversation(ts, None, name, message)),
          conversations |-> Append(convs, cur[1])]
    ELSE [current |-> Some(Conversation(ts, None, name, message)),
          conversations |-> convs]

\* Mutant: the merge moves start_time to the merged record's timestamp
BuildTurnRestamps(cur, convs, ts, name, message) ==
    IF cur # None /\ cur[1].name = name
    THEN [current |-> Some([cur[1] EXCEPT !.message = MergeMessage(@, message),
                                          !.start_time = ts]),
          conversations |-> convs]
    ELSE IF cur # None
    THEN [current |-> Some(Conversation(ts, None, name, message)),
          conversations |-> Append(convs, [cur[1] EXCEPT !.end_time = Some(ts)])]
    ELSE [current |-> Some(Conversation(ts, None, name, message)),
          conversations |-> convs]

\* match current.as_mut() { ... } of parse_conversations, for one record
BuildTurn(cur, convs, ts, name, message) ==
    IF cur # None /\ cur[1].name = name
    THEN [current |-> Some([cur[1] EXCEPT !.message = MergeMessage(@, message)]),
          conversations |-> convs]
    ELSE IF cur # None
    THEN [current |-> Some(Conversation(ts, None, name, message)),
          conversations |-> Append(convs, [cur[1] EXCEPT !.end_time = Some(ts)])]
    ELSE [current |-> Some(Conversation(ts, None, name, message)),
          conversations |-> convs]

\* Whether a line with a matched pattern and this timestamp is dropped
BadTimestamp(timestamp) == ~parse_timestamp(timestamp).ok

\* Mutant: a timestamp that does not parse falls back to a default date-time
\* and the line is kept
LoopBodyKeepsBadTimestamp(cur, convs, line) ==
    LET m == parse_message(line)
        epoch == [year |-> 1970, month |-> 1, day |-> 1,
                  hour |-> 0, minute |-> 0, second |-> 0]
    IN  IF m = None
        THEN [current |-> cur, conversations |-> convs, diag |-> <<>>]
        ELSE LET ts == IF BadTimestamp(m[1].timestamp) THEN epoch
                       ELSE parse_timestamp(m[1].timestamp).t
                 r == BuildTurn(cur, convs, ts, m[1].name, m[1].message)
             IN  [current |-> r.current, conversations |-> r.conversations,
                  diag |-> <<>>]

\* One iteration of the for loop of parse_conversations
LoopBody(cur, convs, line) ==
    LET m == parse_message(line)
    IN  IF m = None
        THEN [current |-> cur, conversations |-> convs, diag |-> <<>>]
        ELSE IF BadTimestamp(m[1].timestamp)
        THEN [current |-> cur, conversations |-> convs,
              diag |-> <<[msg |-> "Skipping line with bad timestamp",
                          arg |-> m[1].timestamp]>>]
        ELSE LET r == BuildTurn(cur, convs, parse_timestamp(m[1].timestamp).t,
                                m[1].name, m[1].message)
             IN  [current |-> r.current, conversations |-> r.conversations,
                  diag |-> <<>>]

\* Mutant: the loop's result is returned without the last flush
FlushLastForgets(cur, convs) == convs

\* "Don't forget to flush the last conversation"
FlushLast(cur, convs) == IF cur # None THEN Append(convs, cur[1]) ELSE convs

TsHeader == <<"|"," ","S","t","a","r","t"," ","T","i","m","e"," ","|"," ",
              "N","a","m","e"," ","|"," ","M","e","s","s","a","g","e"," ","|","\n">>
TsSeparator == <<"|","-","-","-","-","-","-","-","-","-","-","-","-","|",
                 "-","-","-","-","-","-","|","-","-","-","-","-","-","-","-","|","\n">>

TsRow(conv) ==
    <<"|", " ">> \o FormatTimestamp(conv.start_time) \o <<" ", "|", " ">>
    \o conv.name \o <<" ", "|", " ">> \o conv.message \o <<" ", "|", "\n">>

RECURSIVE TsRows(_)
TsRows(convs) == IF convs = <<>> THEN <<>> ELSE TsRow(Head(convs)) \o TsRows(Tail(convs))

\* to_markdown_table of main.rs
ts_to_markdown_table(convs) == TsHeader \o TsSeparator \o TsRows(convs)

(***************************************************************************)
(* Tagged mode: json_no_timestamps.rs                                      *)
(***************************************************************************)
Entry(speaker, text) == [speaker |-> speaker, text |-> text]

\* Mutant: an unrecognized escape loses its backslash
UnescapeDropsBackslash(c) ==
    IF c = "\"" THEN <<"\"">>
    ELSE IF c = "n" THEN <<"\n">>
    ELSE IF c = "t" THEN <<"\t">>
    ELSE <<c>>

\* What one backslash pair of a quoted string decodes to
Unescape(c) ==
    IF c = "\"" THEN <<"\"">>
    ELSE IF c = "n" THEN <<"\n">>
    ELSE IF c = "t" THEN <<"\t">>
    ELSE IF c = "\\" THEN <<"\\">>
    ELSE <<"\\", c>>

\* Mutant: a backslash is copied like any character and escapes nothing
QuotedStepIgnoresEscape(s, p, result) ==
    IF p > Len(s) THEN [done |-> TRUE, ret |-> None]
    ELSE IF s[p] = "\""
    THEN [done |-> TRUE,
          ret |-> Some([value |-> result, rest |-> SubSeq(s, p + 1, Len(s))])]
    ELSE [done |-> FALSE, p |-> p + 1, result |-> Append(result, s[p])]

\* One iteration of the loop of parse_quoted, with the iterator at position p
\* of s: a return, or the iterator's and result's new values
QuotedStep(s, p, result) ==
    IF p > Len(s) THEN [done |-> TRUE, ret |-> None]
    ELSE IF s[p] = "\\"
    THEN IF p + 1 > Len(s) THEN [done |-> TRUE, ret |-> None]
         ELSE [done |-> FALSE, p |-> p + 2, result |-> result \o Unescape(s[p + 1])]
    ELSE IF s[p] = "\""
    THEN [done |-> TRUE,
          ret |-> Some([value |-> result, rest |-> SubSeq(s, p + 1, Len(s))])]
    ELSE [done |-> FALSE, p |-> p + 1, result |-> Append(result, s[p])]

\* The loop of parse_quoted, from the iterator at position p of s
RECURSIVE ParseQuotedFrom(_, _, _)
ParseQuotedFrom(s, p, result) ==
    LET st == QuotedStep(s, p, result)
    IN  IF st.done THEN st.ret ELSE ParseQuotedFrom(s, st.p, st.result)

parse_quoted(s) == ParseQuotedFrom(s, 1, <<>>)

KeySpeaker == <<"s","p","e","a","k","e","r",":">>
KeySpeakerQuoted == <<"\"","s","p","e","a","k","e","r","\"",":">>
KeyText == <<"t","e","x","t",":">>
KeyTextQuoted == <<"\"","t","e","x","t","\"",":">>

\* The prefix chain of parse_entries: Some((key, rest)) or None (continue)
KeyOf(trimmed) ==
    IF StripPrefix(trimmed, KeySpeaker) # None
    THEN Some([key |-> "speaker", rest |-> StripPrefix(trimmed, KeySpeaker)[1]])
    ELSE IF StripPrefix(trimmed, KeySpeakerQuoted) # None
    THEN Some([key |-> "speaker", rest |-> StripPrefix(trimmed, KeySpeakerQuoted)[1]])
    ELSE IF StripPrefix(trimmed, KeyText) # None
    THEN Some([key |-> "text", rest |-> StripPrefix(trimmed, KeyText)[1]])
    ELSE IF StripPrefix(trimmed, KeyTextQuoted) # None
    THEN Some([key |-> "text", rest |-> StripPrefix(trimmed, KeyTextQuoted)[1]])
    ELSE None

\* The part of the loop body of parse_entries that reads a line: Some((key,
\* value)) for a line that reaches the match on key, None for a skipped line
ParseLine(line) ==
    LET kr == KeyOf(Trim(line))
    IN  IF kr = None THEN None
        ELSE LET rest == Trim(kr[1].rest)
             IN  IF ~StartsWith(rest, <<"\"">>) THEN None
                 ELSE LET q == parse_quoted(SubSeq(rest, 2, Len(rest)))
                      IN  IF q = None THEN None
                          ELSE Some([key |-> kr[1].key, value |-> q[1].value])

\* Mutant: a text line reads the pending speaker without taking it
PairUpKeepsPending(cs, ents, key, value) ==
    IF key = "speaker"
    THEN [current_speaker |-> Some(value), entries |-> ents]
    ELSE IF cs # None
    THEN [current_speaker |-> cs, entries |-> Append(ents, Entry(cs[1], value))]
    ELSE [current_speaker |-> None, entries |-> ents]

\* match key { ... } of parse_entries
PairUp(cs, ents, key, value) ==
    IF key = "speaker"
    THEN [current_speaker |-> Some(value), entries |-> ents]
    ELSE IF cs # None
    THEN [current_speaker |-> None, entries |-> Append(ents, Entry(cs[1], value))]
    ELSE [current_speaker |-> None, entries |-> ents]

\* Mutant: a line that is skipped also drops the pending speaker
EntriesBodyClearsOnSkip(cs, ents, line) ==
    LET kv == ParseLine(line)
    IN  IF kv = None
        THEN [current_speaker |-> None, entries |-> ents]
        ELSE PairUp(cs, ents, kv[1].key, kv[1].value)

\* One iteration of the for loop of parse_entries
EntriesBody(cs, ents, line) ==
    LET kv == ParseLine(line)
    IN  IF kv = None
        THEN [current_speaker |-> cs, entries |-> ents]
        ELSE PairUp(cs, ents, kv[1].key, kv[1].value)

make_lowercase_first(s) ==
    IF s = <<>> THEN <<>> ELSE CharToLowercase(Head(s)) \o Tail(s)

make_uppercase_first(s) ==
    IF s = <<>> THEN <<>> ELSE CharToUppercase(Head(s)) \o Tail(s)

\* Mutant: the rule of timestamped mode, unchanged after a period
MergeTextKeepsCase(last_text, text) ==
    LET ends_with_period == EndsWith(TrimEnd(last_text), <<".">>)
        next_text == IF ends_with_period THEN text ELSE make_lowercase_first(text)
    IN  last_text \o <<" ">> \o next_text

\* Mutant: the old text is trimmed before the space is pushed
MergeTextTrimsFirst(last_text, text) ==
    LET ends_with_period == EndsWith(TrimEnd(last_text), <<".">>)
        next_text == IF ends_with_period
                     THEN make_uppercase_first(text)
                     ELSE make_lowercase_first(text)
    IN  TrimEnd(last_text) \o <<" ">> \o next_text

\* The new last.text of merge_entries when the speakers are equal
MergeText(last_text, text) ==
    LET ends_with_period == EndsWith(TrimEnd(last_text), <<".">>)
        next_text == IF ends_with_period
                     THEN make_uppercase_first(text)
                     ELSE make_lowercase_first(text)
    IN  last_text \o <<" ">> \o next_text

\* Mutant: the speakers are never found equal, every entry is pushed
MergeBodyAlwaysPushes(mrg, entry) == Append(mrg, entry)

\* One iteration of the for loop of merge_entries
MergeBody(mrg, entry) ==
    IF mrg # <<>> /\ mrg[Len(mrg)].speaker = entry.speaker
    THEN [mrg EXCEPT ![Len(mrg)].text = MergeText(@, entry.text)]
    ELSE Append(mrg, entry)

RECURSIVE Replace(_, _, _)
Replace(s, c, by) ==
    IF s = <<>> THEN <<>>
    ELSE (IF Head(s) = c THEN by ELSE <<Head(s)>>) \o Replace(Tail(s), c, by)

\* Mutant: only the pipes are escaped
EscapeMdPipesOnly(s) == Replace(s, "|", <<"\\", "|">>)

escape_md(s) == Replace(Replace(s, "|", <<"\\", "|">>), "\n", <<" ">>)

TagHeader == <<"|"," ","S","p","e","a","k","e","r"," ","|"," ","T","e","x","t"," ","|","\n">>
TagSeparator == <<"|","-","-","-","-","-","-","-","-","-","|","-","-","-","-","-","-","|","\n">>

TagRow(e) ==
    <<"|", " ">> \o escape_md(e.speaker) \o <<" ", "|", " ">>
    \o escape_md(e.text) \o <<" ", "|", "\n">>

RECURSIVE TagRows(_)
TagRows(es) == IF es = <<>> THEN <<>> ELSE TagRow(Head(es)) \o TagRows(Tail(es))

\* to_markdown_table of json_no_timestamps.rs
to_markdown_table(es) == TagHeader \o TagSeparator \o TagRows(es)

ReadInputFile(what) ==
    <<"R","e","a","d"," ","i","n","p","u","t"," ","f","i","l","e"," ","'">>
    \o what \o <<"'", "\n">>

(***************************************************************************)
(* The input files of the model.                                           *)
(***************************************************************************)
\* args[1], left out: the default path
FilePath == <<".","/","o","u","t","p","u","t",".","t","x","t">>

Clock == <<"2","0","2","4","-","0","5","-","0","1","T","1","2",":","0","0",":">>
BadClock == <<"2","0","2","4","-","1","3","-","0","1","T","1","2",":","0","0",":">>

TsLines ==
    { Clock \o <<"0","0">> \o <<" ","-"," ","A",":"," ","H","i",".">>,
      Clock \o <<"0","5">> \o <<" ","-"," ","A",":"," ","Y","o">>,
      <<" ">> \o Clock \o <<"1","0">> \o <<" ","-"," ","B",":"," ","O","k"," ">>,
      BadClock \o <<"0","7">> \o <<" ","-"," ","B",":"," ","N","o">>,
      Clock \o <<"1","2">> \o <<" ","-"," ","A",":"," "," ","U","p">>,
      <<"n","o","i","s","e">> }

TagLines ==
    { <<"s","p","e","a","k","e","r",":"," ","\"","A","\"">>,
      <<" ","\"","s","p","e","a","k","e","r","\"",":"," ","\"","B","\"",",">>,
      <<"t","e","x","t",":"," ","\"","H","i","."," ","\"">>,
      <<"\"","t","e","x","t","\"",":"," ","\"","y","o","\"">>,
      <<"t","e","x","t",":"," ","\"","\"">>,
      <<"t","e","x","t",":"," ","\"","A","b","c">> }

TsInputs == SeqsUpTo(TsLines, MaxTsLines)
TagInputs == SeqsUpTo(TagLines, MaxTagLines)

(***************************************************************************)
(* The run.                                                                *)
(***************************************************************************)
Init ==
    /\ pc = "main"
    /\ flag = ""
    /\ input = <<>>
    /\ i = 0
    /\ current = None
    /\ conversations = <<>>
    /\ current_speaker = None
    /\ entries = <<>>
    /\ k = 0
    /\ merged = <<>>
    /\ stdout = <<>>
    /\ stderr = <<>>
    /\ qs = <<>>
    /\ qp = 1
    /\ qresult = <<>>
    /\ qret = None

\* main, flag == "--help"
MainHelp ==
    /\ pc = "main"
    /\ flag' = "--help"
    /\ stderr' = Append(stderr, [msg |-> "Usage", arg |-> <<>>])
    /\ pc' = "done"
    /\ UNCHANGED <<input, i, current, conversations, current_speaker, entries,
                   k, merged, stdout,
                   qvars>>

\* main, no flag: parse_conversations opens the file and starts its loop
MainDefault ==
    /\ pc = "main"
    /\ \E file \in TsInputs : input' = file
    /\ flag' = ""
    /\ i' = 0
    /\ current' = None
    /\ conversations' = <<>>
    /\ pc' = "parse_conversations"
    /\ UNCHANGED <<current_speaker, entries, k, merged, stdout, stderr,
                   qvars>>

\* parse_conversations: one line of the file
ParseConversationsLine ==
    /\ pc = "parse_conversations"
    /\ i < Len(input)
    /\ LET r == LoopBody(current, conversations, input[i + 1])
       IN  /\ current' = r.current
           /\ conversations' = r.conversations
           /\ stderr' = stderr \o r.diag
    /\ i' = i + 1
    /\ UNCHANGED <<pc, flag, input, current_speaker, entries, k, merged, stdout,
                   qvars>>

\* parse_conversations: end of the file, the last flush, the return to main
ParseConversationsEnd ==
    /\ pc = "parse_conversations"
    /\ i = Len(input)
    /\ conversations' = FlushLast(current, conversations)
    /\ current' = None
    /\ pc' = "main_render"
    /\ UNCHANGED <<flag, input, i, current_speaker, entries, k, merged, stdout,
                   stderr,
                   qvars>>

\* main: the table, or the note that there is none
MainRender ==
    /\ pc = "main_render"
    /\ IF conversations = <<>>
       THEN /\ stderr' = Append(stderr, [msg |-> "No conversations found",
                                         arg |-> FilePath])
            /\ stdout' = stdout
       ELSE /\ stdout' = Append(stdout, ts_to_markdown_table(conversations) \o <<"\n">>)
            /\ stderr' = stderr
    /\ pc' = "done"
    /\ UNCHANGED <<flag, input, i, current, conversations, current_speaker,
                   entries, k, merged,
                   qvars>>

\* main, flag == "json": json_to_md reads the file, echoes it, starts parse_entries
JsonToMd ==
    /\ pc = "main"
    /\ \E file \in TagInputs : input' = file
    /\ flag' = "json"
    /\ stdout' = stdout \o <<ReadInputFile(FilePath),
                             ReadInputFile(Join(input', <<"\n">>))>>
    /\ i' = 0
    /\ current_speaker' = None
    /\ entries' = <<>>
    /\ pc' = "parse_entries"
    /\ UNCHANGED <<current, conversations, k, merged, stderr,
                   qvars>>

\* parse_entries: one line of the input
ParseEntriesLine ==
    /\ pc = "parse_entries"
    /\ i < Len(input)
    /\ LET r == EntriesBody(current_speaker, entries, input[i + 1])
       IN  /\ current_speaker' = r.current_speaker
           /\ entries' = r.entries
    /\ i' = i + 1
    /\ UNCHANGED <<pc, flag, input, current, conversations, k, merged, stdout,
                   stderr,
                   qvars>>

\* parse_entries returns; merge_entries starts with an empty merged
ParseEntriesEnd ==
    /\ pc = "parse_entries"
    /\ i = Len(input)
    /\ current_speaker' = None
    /\ k' = 0
    /\ merged' = <<>>
    /\ pc' = "merge_entries"
    /\ UNCHANGED <<flag, input, i, current, conversations, entries, stdout, stderr,
                   qvars>>

\* merge_entries: one entry
MergeEntriesStep ==
    /\ pc = "merge_entries"
    /\ k < Len(entries)
    /\ merged' = MergeBody(merged, entries[k + 1])
    /\ k' = k + 1
    /\ UNCHANGED <<pc, flag, input, i, current, conversations, current_speaker,
                   entries, stdout, stderr,
                   qvars>>

\* merge_entries returns; json_to_md prints the table
JsonToMdPrint ==
    /\ pc = "merge_entries"
    /\ k = Len(entries)
    /\ stdout' = Append(stdout, to_markdown_table(merged))
    /\ pc' = "done"
    /\ UNCHANGED <<flag, input, i, current, conversations, current_speaker,
                   entries, k, merged, stderr,
                   qvars>>

Next ==
    \/ MainHelp
    \/ MainDefault
    \/ ParseConversationsLine
    \/ ParseConversationsEnd
    \/ MainRender
    \/ JsonToMd
    \/ ParseEntriesLine
    \/ ParseEntriesEnd
    \/ MergeEntriesStep
    \/ JsonToMdPrint

Spec == Init /\ [][Next]_vars

(***************************************************************************)
(* Vocabulary of the properties: the RawRecords a run extracts and the     *)
(* Turns it emits, in either mode.                                         *)
(***************************************************************************)
\* The Turn Builder has consumed every record and flushed
TimestampedBuilt == flag = "" /\ pc \in {"main_render", "done"}
TaggedBuilt ==
    flag = "json" /\ (pc = "done" \/ (pc = "merge_entries" /\ k = Len(entries)))

\* The RawRecords of timestamped mode: one per line that matches the pattern
\* and whose timestamp parses
RECURSIVE TsRecords(_)
TsRecords(lines) ==
    IF lines = <<>> THEN <<>>
    ELSE LET m == parse_message(Head(lines))
         IN  (IF m # None /\ parse_timestamp(m[1].timestamp).ok
              THEN <<[identity  |-> m[1].name,
                      payload   |-> m[1].message,
                      timestamp |-> parse_timestamp(m[1].timestamp).t]>>
              ELSE <<>>)
             \o TsRecords(Tail(lines))

\* The RawRecords of tagged mode: the extracted pairs
TagRecords(es) == [n \in 1..Len(es) |-> [identity |-> es[n].speaker,
                                        payload  |-> es[n].text]]

TsTurns(convs) == [n \in 1..Len(convs) |-> [identity |-> convs[n].name,
                                            payload  |-> convs[n].message]]
TagTurns(es) == [n \in 1..Len(es) |-> [identity |-> es[n].speaker,
                                       payload  |-> es[n].text]]

NoTwoConsecutiveSame(recs) ==
    \A n \in 1..(Len(recs) - 1) : recs[n].identity # recs[n + 1].identity

\* C1 for one run: at most one turn per record, as many iff nothing merged
TurnCountLaw(turns, recs) ==
    /\ Len(turns) <= Len(recs)
    /\ (Len(turns) = Len(recs)) <=> NoTwoConsecutiveSame(recs)

\* C1: in both modes the number of emitted turns is at most the number of
\* extracted records, and equal iff no two consecutive records have the same
\* identity.
C1_TurnCount ==
    /\ TimestampedBuilt => TurnCountLaw(TsTurns(conversations), TsRecords(input))
    /\ TaggedBuilt => TurnCountLaw(TagTurns(merged), TagRecords(entries))

\* Three records, two of them consecutive from one speaker, gave two turns
C1_Witness ==
    /\ TimestampedBuilt
    /\ Len(TsRecords(input)) = 3
    /\ Len(conversations) = 2

\* C2: timestamped mode, after end of input: every emitted turn but the last
\* has end_time equal to the start_time of the next emitted turn, and the last
\* has end_time absent.
C2_EndTimes ==
    TimestampedBuilt =>
        \A n \in 1..Len(conversations) :
            IF n < Len(conversations)
            THEN conversations[n].end_time = Some(conversations[n + 1].start_time)
            ELSE conversations[n].end_time = None

C2_Witness ==
    /\ TimestampedBuilt
    /\ Len(conversations) = 3
    /\ conversations[1].start_time # conversations[2].start_time

\* C3: in both modes every emitted turn has a non-empty payload.
C3_PayloadNonEmpty ==
    /\ TimestampedBuilt => \A n \in 1..Len(conversations) : conversations[n].message # <<>>
    /\ TaggedBuilt => \A n \in 1..Len(merged) : merged[n].text # <<>>

(***************************************************************************)
(* C4: the pending speaker of the tagged extractor                         *)
(***************************************************************************)
\* The lines among the first n that carry a valid speaker or text value
RECURSIVE ValidLines(_)
ValidLines(lines) ==
    IF lines = <<>> THEN <<>>
    ELSE (IF ParseLine(Head(lines)) # None THEN ParseLine(Head(lines)) ELSE <<>>)
         \o ValidLines(Tail(lines))

\* The pairs a sequence of valid lines yields: one per text line that comes
\* right after a speaker line, carrying that speaker line's value
RECURSIVE PairsOf(_)
PairsOf(valid) ==
    IF Len(valid) < 2 THEN <<>>
    ELSE PairsOf(SubSeq(valid, 1, Len(valid) - 1))
         \o (IF valid[Len(valid)].key = "text" /\ valid[Len(valid) - 1].key = "speaker"
             THEN <<Entry(valid[Len(valid) - 1].value, valid[Len(valid)].value)>>
             ELSE <<>>)

ExtractorReading == pc = "parse_entries" /\ i < Len(input)

\* What the claim says one valid line does to the pending slot and the pairs
PendingStep ==
    ExtractorReading /\ ParseLine(input[i + 1]) # None =>
        LET kv == ParseLine(input[i + 1])[1]
        IN  /\ kv.key = "speaker" =>
                current_speaker' = Some(kv.value) /\ entries' = entries
            /\ kv.key = "text" /\ current_speaker # None =>
                /\ entries' = Append(entries, Entry(current_speaker[1], kv.value))
                /\ current_speaker' = None
            /\ kv.key = "text" /\ current_speaker = None =>
                entries' = entries /\ current_speaker' = None

\* The pairs emitted so far are those of the lines read so far, and the slot
\* is pending exactly when the last valid line read was a speaker line
PendingLaw ==
    pc = "parse_entries" =>
        LET valid == ValidLines(SubSeq(input, 1, i))
        IN  /\ Len(current_speaker) <= 1
            /\ entries = PairsOf(valid)
            /\ current_speaker =
                   IF valid # <<>> /\ valid[Len(valid)].key = "speaker"
                   THEN Some(valid[Len(valid)].value)
                   ELSE None

\* C4: the tagged extractor holds at most one pending speaker; a valid speaker
\* line overwrites it; a valid text line emits (pending speaker, text) and
\* clears the slot iff a speaker is pending, and emits nothing otherwise.  So
\* every pair carries the most recent valid speaker line's value, and the
\* second of two valid text lines with no valid speaker line between emits
\* nothing.
C4_PendingSpeaker == [][PendingStep]_vars /\ []PendingLaw

\* Two speaker lines, then two text lines: one pair, of the second speaker
C4_Witness ==
    /\ pc = "parse_entries"
    /\ i = 4
    /\ LET valid == ValidLines(SubSeq(input, 1, 4))
       IN  /\ Len(valid) = 4
           /\ valid[1].key = "speaker" /\ valid[2].key = "speaker"
           /\ valid[1].value # valid[2].value
           /\ valid[3].key = "text" /\ valid[4].key = "text"
           /\ entries = <<Entry(valid[2].value, valid[3].value)>>

(***************************************************************************)
(* C5 - C8: the merge                                                      *)
(***************************************************************************)
\* The step about to be taken merges a record into the current turn
TsMerging ==
    /\ pc = "parse_conversations" /\ i < Len(input)
    /\ TsRecords(<<input[i + 1]>>) # <<>>
    /\ current # None
    /\ current[1].name = TsRecords(<<input[i + 1]>>)[1].identity

TagMerging ==
    /\ pc = "merge_entries" /\ k < Len(entries)
    /\ merged # <<>>
    /\ merged[Len(merged)].speaker = entries[k + 1].speaker

MergeFrame ==
    /\ TsMerging =>
        /\ current' # None
        /\ current'[1].name = current[1].name
        /\ current'[1].start_time = current[1].start_time
        /\ current'[1].end_time = current[1].end_time
        /\ current'[1].message # current[1].message
        /\ conversations' = conversations
    /\ TagMerging =>
        /\ Len(merged') = Len(merged)
        /\ \A n \in 1..(Len(merged) - 1) : merged'[n] = merged[n]
        /\ merged'[Len(merged)].speaker = merged[Len(merged)].speaker
        /\ merged'[Len(merged)].text # merged[Len(merged)].text

\* C5: merging a record into the current turn never changes the turn's
\* identity nor, in timestamped mode, its start_time: only the payload changes.
C5_MergeFrame == [][MergeFrame]_vars

\* A turn that holds two records and whose start is the first one's timestamp
C5_Witness ==
    /\ pc = "parse_conversations"
    /\ i = 2
    /\ current # None
    /\ Len(TsRecords(SubSeq(input, 1, 2))) = 2
    /\ conversations = <<>>
    /\ TsRecords(input)[1].timestamp # TsRecords(input)[2].timestamp
    /\ current[1].start_time = TsRecords(input)[1].timestamp

EndsInPeriod(payload) == EndsWith(TrimEnd(payload), <<".">>)
FirstLowercased(payload) ==
    IF payload = <<>> THEN <<>> ELSE CharToLowercase(payload[1]) \o Tail(payload)
FirstUppercased(payload) ==
    IF payload = <<>> THEN <<>> ELSE CharToUppercase(payload[1]) \o Tail(payload)

TsCaseRule ==
    TsMerging =>
        LET old == current[1].message
            inc == TsRecords(<<input[i + 1]>>)[1].payload
        IN  current'[1].message =
                IF EndsInPeriod(old) THEN old \o <<" ">> \o inc
                ELSE old \o <<" ">> \o FirstLowercased(inc)

\* C6: timestamped-mode merge: if the current payload, trailing whitespace
\* trimmed, ends with '.', the new payload is old + ' ' + incoming unchanged;
\* otherwise old + ' ' + incoming with only its first character lowercased.
C6_TsCaseRule == [][TsCaseRule]_vars

\* "Hi." then "Yo": the capital is kept
C6_Witness ==
    /\ pc = "parse_conversations"
    /\ current # None
    /\ current[1].message = <<"H", "i", ".", " ", "Y", "o">>

TagCaseRule ==
    TagMerging =>
        LET old == merged[Len(merged)].text
            inc == entries[k + 1].text
        IN  merged'[Len(merged)].text =
                IF EndsInPeriod(old) THEN old \o <<" ">> \o FirstUppercased(inc)
                ELSE old \o <<" ">> \o FirstLowercased(inc)

\* C7: tagged-mode merge: if the current payload, trailing whitespace trimmed,
\* ends with '.', the incoming payload's first character is uppercased before
\* appending, otherwise lowercased; the rest of it is untouched.
C7_TagCaseRule == [][TagCaseRule]_vars

\* "Hi. " then "yo": the y is capitalised
C7_Witness ==
    /\ pc = "merge_entries"
    /\ merged # <<>>
    /\ merged[Len(merged)].text = <<"H", "i", ".", " ", " ", "Y", "o">>

\* The turn a record belongs to: one more than the identity changes before it
TurnIndex(recs, n) ==
    1 + Cardinality({m \in 2..n : recs[m].identity # recs[m - 1].identity})

NumTurns(recs) == IF recs = <<>> THEN 0 ELSE TurnIndex(recs, Len(recs))

\* The payloads of the records of turn t, in input order
FragmentsOf(recs, t) ==
    LET idx == {n \in 1..Len(recs) : TurnIndex(recs, n) = t}
    IN  [j \in 1..Cardinality(idx) |-> recs[SetMin(idx) + j - 1].payload]

\* A fragment as a merge may append it: only the case of its first character
\* may differ
CaseVariants(p) == {p, FirstLowercased(p), FirstUppercased(p)}

\* payload is the fragments, each whole, with one " " between neighbours
RECURSIVE JoinedBySingleSpaces(_, _)
JoinedBySingleSpaces(payload, frags) ==
    IF Len(frags) = 1 THEN payload = frags[1]
    ELSE \E f \in CaseVariants(frags[Len(frags)]) :
            /\ Len(payload) >= Len(f) + 1
            /\ SubSeq(payload, Len(payload) - Len(f) + 1, Len(payload)) = f
            /\ payload[Len(payload) - Len(f)] = " "
            /\ JoinedBySingleSpaces(SubSeq(payload, 1, Len(payload) - Len(f) - 1),
                                    SubSeq(frags, 1, Len(frags) - 1))

SingleSpaceLaw(turns, recs) ==
    /\ Len(turns) = NumTurns(recs)
    /\ \A t \in 1..Len(turns) :
           JoinedBySingleSpaces(turns[t].payload, FragmentsOf(recs, t))

\* C8: in both modes a merged payload is its fragments joined by exactly one
\* ASCII space each, whatever whitespace the old payload ends with or the
\* incoming payload starts with (that whitespace is kept as it is).
C8_SingleSpace ==
    /\ TimestampedBuilt => SingleSpaceLaw(TsTurns(conversations), TsRecords(input))
    /\ TaggedBuilt => SingleSpaceLaw(TagTurns(merged), TagRecords(entries))

\* A merged tagged turn whose first fragment ends with a space
C8_Witness ==
    /\ TaggedBuilt
    /\ Len(entries) = 2
    /\ Len(merged) = 1
    /\ entries[1].text # <<>>
    /\ IsWhitespace(entries[1].text[Len(entries[1].text)])
    /\ entries[2].text # <<>>

(***************************************************************************)
(* C9: the empty result                                                    *)
(***************************************************************************)
Contains(s, sub) ==
    \E p \in 0..(Len(s) - Len(sub)) : SubSeq(s, p + 1, p + Len(sub)) = sub

Printed(row) == \E n \in 1..Len(stdout) : Contains(stdout[n], row)

\* C9: in either mode, when no turns are extracted the run ends without a
\* table: neither a header row nor a separator row is written to stdout.
C9_NoTableWhenEmpty ==
    /\ pc = "done" /\ flag = "" /\ conversations = <<>> =>
           ~Printed(TsHeader) /\ ~Printed(TsSeparator)
    /\ pc = "done" /\ flag = "json" /\ merged = <<>> =>
           ~Printed(TagHeader) /\ ~Printed(TagSeparator)

(***************************************************************************)
(* C10: a line whose timestamp does not parse                              *)
(***************************************************************************)
\* parse_conversations as a function of the whole file
RECURSIVE ParseConversationsFrom(_, _, _)
ParseConversationsFrom(cur, convs, lines) ==
    IF lines = <<>> THEN FlushLast(cur, convs)
    ELSE LET r == LoopBody(cur, convs, Head(lines))
         IN  ParseConversationsFrom(r.current, r.conversations, Tail(lines))

ParseConversations(lines) == ParseConversationsFrom(None, <<>>, lines)

\* What main prints for these conversations
PrintedFor(convs) ==
    IF convs = <<>> THEN <<>> ELSE <<ts_to_markdown_table(convs) \o <<"\n">>>>

WithoutLine(lines, n) == SubSeq(lines, 1, n - 1) \o SubSeq(lines, n + 1, Len(lines))

\* The line matches the pattern and its timestamp is no date-time
MalformedTimestamp(line) ==
    /\ parse_message(line) # None
    /\ ~parse_timestamp(parse_message(line)[1].timestamp).ok

SkipsMalformed ==
    /\ pc = "parse_conversations" /\ i < Len(input)
    /\ MalformedTimestamp(input[i + 1])
    => /\ current' = current
       /\ conversations' = conversations
       /\ stdout' = stdout
       /\ pc' = "parse_conversations"
       /\ i' = i + 1

SameAsWithout ==
    /\ TimestampedBuilt =>
        \A n \in 1..Len(input) :
            MalformedTimestamp(input[n]) =>
                conversations = ParseConversations(WithoutLine(input, n))
    /\ flag = "" /\ pc = "done" =>
        \A n \in 1..Len(input) :
            MalformedTimestamp(input[n]) =>
                stdout = PrintedFor(ParseConversations(WithoutLine(input, n)))

\* C10: timestamped mode: a line that matches the pattern but whose timestamp
\* fails to parse leaves the current turn and the emitted turns unchanged and
\* does not stop the run; the final output is that of the same input without
\* the line.
C10_MalformedTimestamp == [][SkipsMalformed]_vars /\ []SameAsWithout

\* A malformed line between two lines of one speaker, which still merge
C10_Witness ==
    /\ flag = "" /\ pc = "done"
    /\ Len(input) = 3
    /\ MalformedTimestamp(input[2])
    /\ Len(TsRecords(input)) = 2
    /\ Len(conversations) = 1
    /\ Len(stdout) = 1

(***************************************************************************)
(* parse_quoted, followed one loop iteration at a time on every string of  *)
(* the characters it tells apart                                           *)
(***************************************************************************)
QuotedAlphabet == {"a", "\"", "\\", "n", "t"}
QuotedInputs == SeqsUpTo(QuotedAlphabet, MaxQuotedLen)

\* parse_entries calls parse_quoted(rest)
QuotedInit ==
    /\ pc = "parse_quoted"
    /\ flag = "json"
    /\ input = <<>>
    /\ i = 0
    /\ current = None
    /\ conversations = <<>>
    /\ current_speaker = None
    /\ entries = <<>>
    /\ k = 0
    /\ merged = <<>>
    /\ stdout = <<>>
    /\ stderr = <<>>
    /\ qs \in QuotedInputs
    /\ qp = 1
    /\ qresult = <<>>
    /\ qret = None

\* parse_quoted: one iteration of its loop
ParseQuotedStep ==
    /\ pc = "parse_quoted"
    /\ LET st == QuotedStep(qs, qp, qresult)
       IN  IF st.done
           THEN /\ qret' = st.ret
                /\ pc' = "parse_quoted_returned"
                /\ UNCHANGED <<qp, qresult>>
           ELSE /\ qp' = st.p
                /\ qresult' = st.result
                /\ UNCHANGED <<pc, qret>>
    /\ UNCHANGED <<flag, input, i, current, conversations, current_speaker,
                   entries, k, merged, stdout, stderr, qs>>

\* The loop is straight-line code: an iteration that can run does run
SpecQuoted == QuotedInit /\ [][ParseQuotedStep]_vars /\ WF_vars(ParseQuotedStep)

\* The backslashes that stand right before position p
BackslashesBefore(s, p) ==
    Cardinality({r \in 1..(p - 1) : \A j \in r..(p - 1) : s[j] = "\\"})

\* A double quote that no backslash escapes: an even number of backslashes
\* stands right before it
UnescapedQuotes(s) ==
    {p \in 1..Len(s) : s[p] = "\"" /\ BackslashesBefore(s, p) % 2 = 0}

ScannerReturned == pc = "parse_quoted_returned"

ScannerLaw ==
    ScannerReturned =>
        /\ qret # None <=> UnescapedQuotes(qs) # {}
        /\ qret # None =>
               qret[1].rest = SubSeq(qs, SetMin(UnescapedQuotes(qs)) + 1, Len(qs))

\* C11: the quoted-string scanner terminates on every input and returns a
\* result iff the input holds an unescaped double quote; the remainder is then
\* the text right after the first unescaped double quote; otherwise (end of
\* input, also right after a backslash) it returns failure.
C11_Scanner == <>ScannerReturned /\ []ScannerLaw

\* An escaped quote is passed over, the next quote closes, text remains
C11_Witness ==
    /\ ScannerReturned
    /\ qs = <<"\\", "\"", "\"", "a">>
    /\ qret = Some([value |-> <<"\"">>, rest |-> <<"a">>])

\* What the text before the closing quote decodes to
RECURSIVE Decoded(_)
Decoded(body) ==
    IF body = <<>> THEN <<>>
    ELSE IF Head(body) = "\\" /\ Len(body) >= 2
    THEN (CASE body[2] = "\"" -> <<"\"">>
            [] body[2] = "n"  -> <<"\n">>
            [] body[2] = "t"  -> <<"\t">>
            [] body[2] = "\\" -> <<"\\">>
            [] OTHER          -> <<"\\", body[2]>>)
         \o Decoded(SubSeq(body, 3, Len(body)))
    ELSE <<Head(body)>> \o Decoded(Tail(body))

\* C12: on success the content is the text before the closing quote with each
\* backslash pair decoded (\" to a quote, \n to a line feed, \t to a tab, \\ to
\* one backslash, any other pair kept as its two characters) and every other
\* character copied unchanged, in order.
C12_Content ==
    ScannerReturned /\ qret # None =>
        qret[1].value = Decoded(SubSeq(qs, 1, Len(qs) - Len(qret[1].rest) - 1))

\* \a is kept as two characters, \n becomes a line feed
C12_Witness ==
    /\ ScannerReturned
    /\ qs = <<"\\", "a", "\\", "n">> \o <<"\"">>
    /\ qret = Some([value |-> <<"\\", "a", "\n">>, rest |-> <<>>])

(***************************************************************************)
(* to_markdown_table of tagged mode, on entries whose fields hold pipes    *)
(* and line feeds                                                          *)
(***************************************************************************)
FieldAlphabet == {"a", "|", "\n"}
RenderSpeakers == {<<"A">>, <<"|">>, <<"\n", "B">>}
RenderTexts == SeqsUpTo(FieldAlphabet, MaxFieldLen)
RenderEntries == {Entry(sp, tx) : sp \in RenderSpeakers, tx \in RenderTexts}

\* json_to_md calls to_markdown_table(&merged) with one or two entries
RenderInit ==
    /\ pc = "to_markdown_table"
    /\ flag = "json"
    /\ input = <<>>
    /\ i = 0
    /\ current = None
    /\ conversations = <<>>
    /\ current_speaker = None
    /\ entries = <<>>
    /\ k = 0
    /\ merged \in [1..1 -> RenderEntries] \cup [1..2 -> RenderEntries]
    /\ stdout = <<>>
    /\ stderr = <<>>
    /\ qs = <<>>
    /\ qp = 1
    /\ qresult = <<>>
    /\ qret = None

\* json_to_md: let table = to_markdown_table(&merged); print!("{}", table)
ToMarkdownTable ==
    /\ pc = "to_markdown_table"
    /\ stdout' = Append(stdout, to_markdown_table(merged))
    /\ pc' = "done"
    /\ UNCHANGED <<flag, input, i, current, conversations, current_speaker,
                   entries, k, merged, stderr, qvars>>

SpecRender == RenderInit /\ [][ToMarkdownTable]_vars

\* The lines of a text: the pieces between its line feeds
RECURSIVE LinesOf(_, _)
LinesOf(text, line) ==
    IF text = <<>> THEN <<line>>
    ELSE IF Head(text) = "\n" THEN <<line>> \o LinesOf(Tail(text), <<>>)
    ELSE LinesOf(Tail(text), Append(line, Head(text)))

\* A field as the claim says it is written
RECURSIVE Escaped(_)
Escaped(field) ==
    IF field = <<>> THEN <<>>
    ELSE (IF Head(field) = "|" THEN <<"\\", "|">>
          ELSE IF Head(field) = "\n" THEN <<" ">>
          ELSE <<Head(field)>>)
         \o Escaped(Tail(field))

Rendered == pc = "done" /\ flag = "json" /\ stdout # <<>>

\* C13: tagged-mode rendering: in every row each '|' of the speaker or text
\* field is written as backslash and '|', and each line feed of a field as one
\* space, so each turn takes exactly one output line.
C13_Escaping ==
    Rendered =>
        LET out == LinesOf(stdout[Len(stdout)], <<>>)
        IN  /\ Len(out) = Len(merged) + 3
            /\ out[Len(out)] = <<>>
            /\ \A n \in 1..Len(merged) :
                   out[n + 2] = <<"|", " ">> \o Escaped(merged[n].speaker)
                                \o <<" ", "|", " ">> \o Escaped(merged[n].text)
                                \o <<" ", "|">>

\* Two turns, the first with a pipe and a line feed in its text and a line
\* feed in its speaker
C13_Witness ==
    /\ Rendered
    /\ Len(merged) = 2
    /\ merged[1] = Entry(<<"\n", "B">>, <<"|", "\n">>)
    /\ LinesOf(stdout[Len(stdout)], <<>>)[3]
           = <<"|", " ", " ", "B", " ", "|", " ", "\\", "|", " ", " ", "|">>

(***************************************************************************)
(* C14: no record is lost                                                  *)
(***************************************************************************)
\* The turns split the records, in order, into consecutive groups: each turn
\* holds the payloads of one or more records of its identity
RECURSIVE Covers(_, _)
Covers(turns, recs) ==
    IF turns = <<>> THEN recs = <<>>
    ELSE \E m \in 1..Len(recs) :
            /\ \A j \in 1..m : recs[j].identity = turns[1].identity
            /\ JoinedBySingleSpaces(turns[1].payload, [j \in 1..m |-> recs[j].payload])
            /\ Covers(Tail(turns), SubSeq(recs, m + 1, Len(recs)))

\* The last record's payload ends the last turn's payload
LastInLast(turns, recs) ==
    recs # <<>> =>
        /\ turns # <<>>
        /\ turns[Len(turns)].identity = recs[Len(recs)].identity
        /\ \E f \in CaseVariants(recs[Len(recs)].payload) :
               EndsWith(turns[Len(turns)].payload, f)

NothingLost ==
    /\ TimestampedBuilt =>
        /\ Covers(TsTurns(conversations), TsRecords(input))
        /\ LastInLast(TsTurns(conversations), TsRecords(input))
    /\ TaggedBuilt =>
        /\ Covers(TagTurns(merged), TagRecords(entries))
        /\ LastInLast(TagTurns(merged), TagRecords(entries))

\* At the end of the file the turn still in the slot is pushed as it is
FlushAtEnd ==
    pc = "parse_conversations" /\ i = Len(input) /\ current # None =>
        conversations' = Append(conversations, current[1])

\* C14: at end of input the current-turn slot is flushed, so no record is
\* lost: every record's payload is part of exactly one emitted turn, in input
\* order, and the last record belongs to the last emitted turn.
C14_NothingLost == [][FlushAtEnd]_vars /\ []NothingLost

\* The last two of three records share a speaker and make the last turn
C14_Witness ==
    /\ flag = "" /\ pc = "main_render"
    /\ Len(TsRecords(input)) = 3
    /\ TsRecords(input)[1].identity # TsRecords(input)[2].identity
    /\ TsRecords(input)[2].identity = TsRecords(input)[3].identity
    /\ Len(conversations) = 2
    /\ conversations[2].end_time = None

(***************************************************************************)
(* Tagged mode on files with malformed lines                               *)
(***************************************************************************)
MalformedLines ==
    { <<"s","p","e","a","k","e","r",":"," ","\"","A","\"">>,
      <<"t","e","x","t",":"," ","\"","H","i","\"">>,
      <<"s","p","e","a","k","e","r",":"," ","\"","B">>,
      <<"s","p","e","a","k","e","r",":"," ","B","\"">>,
      <<"t","e","x","t",":"," ","\"","a","\\","\"">>,
      <<"n","a","m","e",":"," ","\"","C","\"">> }

MalformedInputs == SeqsUpTo(MalformedLines, MaxTagLines)

\* json_to_md has read and echoed the file and calls parse_entries
MalformedInit ==
    /\ pc = "parse_entries"
    /\ flag = "json"
    /\ input \in MalformedInputs
    /\ i = 0
    /\ current = None
    /\ conversations = <<>>
    /\ current_speaker = None
    /\ entries = <<>>
    /\ k = 0
    /\ merged = <<>>
    /\ stdout = <<ReadInputFile(FilePath), ReadInputFile(Join(input, <<"\n">>))>>
    /\ stderr = <<>>
    /\ qs = <<>>
    /\ qp = 1
    /\ qresult = <<>>
    /\ qret = None

TaggedNext ==
    \/ ParseEntriesLine
    \/ ParseEntriesEnd
    \/ MergeEntriesStep
    \/ JsonToMdPrint

SpecMalformed == MalformedInit /\ [][TaggedNext]_vars

\* The recognized prefix a trimmed line starts with, or none
PrefixOf(trimmed) ==
    IF StartsWith(trimmed, KeySpeaker) THEN Some(KeySpeaker)
    ELSE IF StartsWith(trimmed, KeySpeakerQuoted) THEN Some(KeySpeakerQuoted)
    ELSE IF StartsWith(trimmed, KeyText) THEN Some(KeyText)
    ELSE IF StartsWith(trimmed, KeyTextQuoted) THEN Some(KeyTextQuoted)
    ELSE None

\* The three ways the claim names for a line to be ignored
Ignored(line) ==
    LET trimmed == Trim(line)
    IN  \/ PrefixOf(trimmed) = None
        \/ /\ PrefixOf(trimmed) # None
           /\ LET v == Trim(SubSeq(trimmed, Len(PrefixOf(trimmed)[1]) + 1, Len(trimmed)))
              IN  \/ v = <<>>
                  \/ v[1] # "\""
                  \/ UnescapedQuotes(SubSeq(v, 2, Len(v))) = {}

IsSpeakerLine(line) ==
    StartsWith(Trim(line), KeySpeaker) \/ StartsWith(Trim(line), KeySpeakerQuoted)
IsTextLine(line) ==
    StartsWith(Trim(line), KeyText) \/ StartsWith(Trim(line), KeyTextQuoted)

IgnoredLineFrame ==
    ExtractorReading /\ Ignored(input[i + 1]) =>
        /\ current_speaker' = current_speaker
        /\ entries' = entries

\* C15: a tagged-mode line that is ignored (no recognized prefix, value not
\* beginning with a double quote, or quoted value unterminated) changes
\* neither the pending speaker nor the emitted pairs: a malformed speaker line
\* does not clear or replace a pending speaker, a malformed text line does not
\* consume it.
C15_IgnoredLine == [][IgnoredLineFrame]_vars

\* speaker "A", a malformed speaker line, a malformed text line, then a text:
\* the pair carries "A"
C15_Witness ==
    /\ pc = "parse_entries"
    /\ i = 4
    /\ ~Ignored(input[1]) /\ IsSpeakerLine(input[1])
    /\ Ignored(input[2]) /\ IsSpeakerLine(input[2])
    /\ Ignored(input[3]) /\ IsTextLine(input[3])
    /\ ~Ignored(input[4]) /\ IsTextLine(input[4])
    /\ entries = <<Entry(<<"A">>, <<"H", "i">>)>>

(***************************************************************************)
(* C16, C17: the two Turn Builders on the same identities                  *)
(***************************************************************************)
IdentitiesOf(recs) == [n \in 1..Len(recs) |-> recs[n].identity]

\* The builder of timestamped mode as a function of its records
RECURSIVE TsBuildFrom(_, _, _)
TsBuildFrom(cur, convs, recs) ==
    IF recs = <<>> THEN FlushLast(cur, convs)
    ELSE LET r == BuildTurn(cur, convs, Head(recs).timestamp,
                            Head(recs).identity, Head(recs).payload)
         IN  TsBuildFrom(r.current, r.conversations, Tail(recs))

TsBuilder(recs) == TsTurns(TsBuildFrom(None, <<>>, recs))

\* The builder of tagged mode as a function of its records
RECURSIVE TagBuildFrom(_, _)
TagBuildFrom(mrg, recs) ==
    IF recs = <<>> THEN mrg
    ELSE TagBuildFrom(MergeBody(mrg, Entry(Head(recs).identity, Head(recs).payload)),
                      Tail(recs))

TagBuilder(recs) == TagTurns(TagBuildFrom(<<>>, recs))

\* Records of these identities whose payload is their place in the sequence,
\* a digit, which no case rule changes: a turn's payload then lists its records
Numbered(ids) ==
    [n \in 1..Len(ids) |->
        [identity  |-> ids[n],
         payload   |-> <<Digits[n + 1]>>,
         timestamp |-> parse_timestamp(Clock \o <<"0", Digits[n + 1]>>).t]]

\* The identities the run's records have
RunIdentities ==
    IF flag = "" THEN IdentitiesOf(TsRecords(input))
    ELSE IdentitiesOf(TagRecords(entries))

\* C16: for the same sequence of record identities the timestamped-mode
\* builder and the tagged-mode builder give the same number of turns, the same
\* turn identities in the same order and the same partition of the records.
C16_SameTurns ==
    /\ TimestampedBuilt \/ TaggedBuilt =>
           TsBuilder(Numbered(RunIdentities)) = TagBuilder(Numbered(RunIdentities))
    /\ TimestampedBuilt =>
           IdentitiesOf(TsTurns(conversations))
               = IdentitiesOf(TagBuilder(Numbered(RunIdentities)))
    /\ TaggedBuilt =>
           IdentitiesOf(TagTurns(merged))
               = IdentitiesOf(TsBuilder(Numbered(RunIdentities)))

\* Two pairs of one speaker: both builders give one turn of records 1 and 2
C16_Witness ==
    /\ flag = "json" /\ pc = "done"
    /\ Len(entries) = 2
    /\ Len(merged) = 1
    /\ TsBuilder(Numbered(RunIdentities))
           = <<[identity |-> entries[1].speaker, payload |-> <<"1", " ", "2">>]>>

\* A sequence without its consecutive repetitions
RECURSIVE Collapsed(_)
Collapsed(ids) ==
    IF Len(ids) <= 1 THEN ids
    ELSE IF ids[1] = ids[2] THEN Collapsed(Tail(ids))
    ELSE <<ids[1]>> \o Collapsed(Tail(ids))

\* C17: in both modes the emitted turn identities are the record identities
\* with consecutive duplicates collapsed; no two adjacent emitted turns have
\* the same identity.
C17_Collapsed ==
    /\ TimestampedBuilt =>
        /\ IdentitiesOf(TsTurns(conversations))
               = Collapsed(IdentitiesOf(TsRecords(input)))
        /\ NoTwoConsecutiveSame(TsTurns(conversations))
    /\ TaggedBuilt =>
        /\ IdentitiesOf(TagTurns(merged)) = Collapsed(IdentitiesOf(TagRecords(entries)))
        /\ NoTwoConsecutiveSame(TagTurns(merged))

\* Speakers X, X, Y give turns X, Y
C17_Witness ==
    /\ flag = "" /\ pc = "done"
    /\ Len(TsRecords(input)) = 3
    /\ TsRecords(input)[1].identity = TsRecords(input)[2].identity
    /\ TsRecords(input)[2].identity # TsRecords(input)[3].identity
    /\ Len(conversations) = 2
    /\ conversations[1].name # conversations[2].name
====
